---- MODULE Spec2Model ----
(***************************************************************************)
(* The ticket ledger of src/hehehe.py ("top final.py", lines 212-388):     *)
(* TicketTransaction, Block and TicketBlockchain, driven sequentially by   *)
(* issue_ticket, transfer_ticket, redeem_ticket, verify_ticket and mine    *)
(* (Spec), and with the steps of one mine() interleaved with the other     *)
(* calls (SpecConc).                                                       *)
(*                                                                         *)
(* Python objects are modelled with their identity where the code shares   *)
(* them: a list is a reference into the heap `lists` (mine hands the       *)
(* pending list itself to the new Block), a transaction carries its object *)
(* identity `oid`, a registry entry is the dict stored under its ticket id *)
(* (verify_ticket returns that dict, not a copy).                          *)
(***************************************************************************)
EXTENDS Integers, Sequences, FiniteSets, TLC

VARIABLES
    chain,                  \* self.chain: sequence of Block records
    pending_transactions,   \* self.pending_transactions: reference into lists
    tickets,                \* self.tickets: dict ticket_id -> entry
    lists,                  \* heap of Python list objects (reference -> contents)
    ntx,                    \* number of TicketTransaction objects constructed
    now,                    \* last value read from time.time()
    mines,                  \* number of mine() calls that found pending non-empty
    res,                    \* the last facade call and the value it returned
    miner,                  \* the mine() call in progress: its position and locals
    held,                   \* the value of verify_ticket a caller keeps, and what it showed
    tampered                \* the chain index of a block altered from outside, if any

\* The driver's variables besides the ledger: each specification moves its own
aux == <<miner, held, tampered>>

vars == <<chain, pending_transactions, tickets, lists, ntx, now, mines, res, aux>>

----------------------------------------------------------------------------
(* Bounds of the model *)

MaxTx == 3        \* transactions constructed in one run
MaxTime == 0      \* time.time() ranges over 0..MaxTime
NumIds == 2       \* uuid4 draws from 1..NumIds

(* Inputs *)

Owners == {"Alice", "Bob"}
Events == {"RockFest"}
TicketIds == 1..NumIds
IdInputs == 0..NumIds               \* the ids a caller passes; uuid4 never produces 0

NoneStr == "None"                   \* Python None in a string-typed field
NoneRet == <<>>                     \* Python None as a return value; <<v>> is the value v

----------------------------------------------------------------------------
(* TicketTransaction *)

TicketTransaction(tx_type, ticket_id, owner, event, new_owner, t, oid) ==
    [tx_type |-> tx_type, ticket_id |-> ticket_id, owner |-> owner,
     event |-> event, new_owner |-> new_owner, timestamp |-> t, oid |-> oid]

\* to_dict returns self.__dict__: the attributes, without the object's identity
to_dict(tx) ==
    [tx_type |-> tx.tx_type, ticket_id |-> tx.ticket_id, owner |-> tx.owner,
     event |-> tx.event, new_owner |-> tx.new_owner, timestamp |-> tx.timestamp]

----------------------------------------------------------------------------
(* Block and its hash *)

difficulty == 2

HexBase == 16

StrCode(s) ==
    CASE s = "Alice" -> 1
      [] s = "Bob" -> 2
      [] s = "RockFest" -> 3
      [] s = "issue" -> 4
      [] s = "transfer" -> 5
      [] s = "redeem" -> 6
      [] OTHER -> 0

RECURSIVE SumSeq(_)
SumSeq(s) == IF s = <<>> THEN 0 ELSE Head(s) + SumSeq(Tail(s))

TxCode(d) ==
    StrCode(d.tx_type) + 2 * d.ticket_id + 3 * StrCode(d.owner)
      + StrCode(d.event) + 5 * StrCode(d.new_owner) + d.timestamp

\* The digest's leading hex digits of a hash string ("0" has one)
LeadDigits(h) == SubSeq(h, 1, IF Len(h) < difficulty THEN Len(h) ELSE difficulty)

\* json.dumps(..., sort_keys=True): the serialised fields of a block
block_string(index, txs, timestamp, previous_hash, nonce) ==
    [index |-> index,
     transactions |-> [i \in 1..Len(txs) |-> to_dict(txs[i])],
     timestamp |-> timestamp,
     previous_hash |-> previous_hash,
     nonce |-> nonce]

\* A number mixed from every serialised field except the nonce
Checksum(p) ==
    (5 + p.index + 3 * p.timestamp + SumSeq(LeadDigits(p.previous_hash))
       + SumSeq([i \in 1..Len(p.transactions) |-> (i + 1) * TxCode(p.transactions[i])])) % 8

\* hashlib.sha256(...).hexdigest() as an ideal hash: the first `difficulty` hex
\* digits are mixed from the payload and the nonce (both zero for one nonce in
\* every 8, whatever the payload, so that a search always has an end), the
\* rest of the digest is determined by the payload and differs for different
\* payloads (collision resistance), so it is carried as the payload.
sha256_hexdigest(p) ==
    LET v == (37 * ((Checksum(p) + 7 * p.nonce) % 8)) % (HexBase * HexBase)
    IN  <<v \div HexBase, v % HexBase, p>>

compute_hash_without_transactions(b, heap) ==
    sha256_hexdigest(block_string(b.index, <<>>, b.timestamp, b.previous_hash, b.nonce))

\* Block.compute_hash over the block's current fields; the transactions
\* are read through the list reference
compute_hash(b, heap) ==
    sha256_hexdigest(block_string(b.index, heap[b.transactions], b.timestamp,
                                  b.previous_hash, b.nonce))

\* computed_hash.startswith("0" * self.difficulty)
startswith_zeros(h) ==
    /\ Len(h) >= difficulty
    /\ \A i \in 1..difficulty : h[i] = 0

\* Block.__init__ (nonce defaults to 0; hash is set by the caller)
Block_index_from_one(index, transactions, previous_hash, t) ==
    [index |-> index + 1, transactions |-> transactions, timestamp |-> t,
     previous_hash |-> previous_hash, nonce |-> 0, hash |-> NoneRet]

Block(index, transactions, previous_hash, t) ==
    [index |-> index, transactions |-> transactions, timestamp |-> t,
     previous_hash |-> previous_hash, nonce |-> 0, hash |-> NoneRet]

----------------------------------------------------------------------------
(* TicketBlockchain *)

next_nonce_stuck(b) ==
    b

\* block.nonce += 1
next_nonce(b) ==
    [b EXCEPT !.nonce = b.nonce + 1]

\* proof_of_work's while loop, entered with the block and the hash computed
\* last: the block as the search leaves it and the hash returned
RECURSIVE pow_loop(_, _, _)
pow_loop(b, computed_hash, heap) ==
    IF startswith_zeros(computed_hash)
    THEN [block |-> b, computed_hash |-> computed_hash]
    ELSE LET b1 == next_nonce(b)
         IN  pow_loop(b1, compute_hash(b1, heap), heap)

proof_of_work_from_one(b, heap) ==
    LET b0 == [b EXCEPT !.nonce = 1]
    IN  pow_loop(b0, compute_hash(b0, heap), heap)

proof_of_work_stale_nonce(b, heap) ==
    LET b0 == [b EXCEPT !.nonce = 0]
        found == pow_loop(b0, compute_hash(b0, heap), heap)
    IN  [found EXCEPT !.block.nonce = @ + 1]

\* proof_of_work: resets the nonce, hashes, searches
proof_of_work(b, heap) ==
    LET b0 == [b EXCEPT !.nonce = 0]
    IN  pow_loop(b0, compute_hash(b0, heap), heap)

\* create_genesis_block, on the empty ledger of __init__
create_genesis_block(t) ==
    LET heap == << <<>>, <<>> >>     \* 1: pending_transactions, 2: the genesis []
        g == Block(0, 2, <<0>>, t)
    IN  [g EXCEPT !.hash = compute_hash(g, heap)]

\* self.tickets.get(ticket_id)
tickets_get(ticket_id) ==
    IF ticket_id \in DOMAIN tickets THEN <<tickets[ticket_id]>> ELSE NoneRet

tickets_set_alone(ticket_id, entry) ==
    [k \in {ticket_id} |-> entry]

\* self.tickets[ticket_id] = entry
tickets_set(ticket_id, entry) ==
    [k \in DOMAIN tickets \cup {ticket_id} |->
        IF k = ticket_id THEN entry ELSE tickets[k]]

\* add_transaction: append to the list self.pending_transactions refers to
add_transaction_overwrite(tx) ==
    [lists EXCEPT ![pending_transactions] = <<tx>>]

add_transaction(tx) ==
    [lists EXCEPT ![pending_transactions] = Append(@, tx)]

\* str(uuid.uuid4()): a 122-bit random id, taken to be fresh. Ids are opaque
\* to the ledger, so the fresh id drawn is named by the least unused number.
uuid4 ==
    LET unused == TicketIds \ DOMAIN tickets
    IN  {i \in unused : \A j \in unused : i <= j}

Init ==
    /\ now = 0
    /\ chain = <<create_genesis_block(0)>>
    /\ pending_transactions = 1
    /\ lists = << <<>>, <<>> >>
    /\ tickets = <<>>
    /\ ntx = 0
    /\ mines = 0
    /\ res = [op |-> "init"]
    /\ miner = [pc |-> "idle"]
    /\ held = NoneRet
    /\ tampered = NoneRet

issue_ticket(owner, event) ==
    /\ ntx < MaxTx
    /\ \E ticket_id \in uuid4, t \in now..MaxTime :
         LET tx == TicketTransaction("issue", ticket_id, owner, event, NoneStr, t, ntx + 1)
         IN  /\ now' = t
             /\ ntx' = ntx + 1
             /\ lists' = add_transaction(tx)
             /\ tickets' = tickets_set(ticket_id,
                               [owner |-> owner, status |-> "valid", event |-> event])
             /\ res' = [op |-> "issue", ret |-> ticket_id]
    /\ UNCHANGED <<chain, pending_transactions, mines>>

transfer_rejects_unknown_only(ticket) ==
    ticket = NoneRet

\* if not ticket or ticket["status"] != "valid" (an entry is never an empty dict)
transfer_rejects(ticket) ==
    ticket = NoneRet \/ ticket[1].status # "valid"

transfer_tx_new_owner_as_owner(ticket_id, ticket, new_owner, t, oid) ==
    TicketTransaction("transfer", ticket_id, new_owner, NoneStr, new_owner, t, oid)

\* TicketTransaction("transfer", ticket_id, ticket["owner"], new_owner=new_owner)
transfer_tx(ticket_id, ticket, new_owner, t, oid) ==
    TicketTransaction("transfer", ticket_id, ticket.owner, NoneStr, new_owner, t, oid)

transfer_ticket(ticket_id, new_owner) ==
    LET ticket == tickets_get(ticket_id) IN
    IF transfer_rejects(ticket)
    THEN /\ res' = [op |-> "transfer", ticket_id |-> ticket_id, ret |-> FALSE]
         /\ UNCHANGED <<chain, pending_transactions, tickets, lists, ntx, now, mines>>
    ELSE /\ ntx < MaxTx
         /\ \E t \in now..MaxTime :
              /\ now' = t
              /\ lists' = add_transaction(transfer_tx(ticket_id, ticket[1], new_owner,
                                                      t, ntx + 1))
         /\ ntx' = ntx + 1
         /\ tickets' = [tickets EXCEPT ![ticket_id].owner = new_owner]
         /\ res' = [op |-> "transfer", ticket_id |-> ticket_id, ret |-> TRUE]
         /\ UNCHANGED <<chain, pending_transactions, mines>>

redeem_rejects_unknown_only(ticket) ==
    ticket = NoneRet

\* if not ticket or ticket["status"] != "valid"
redeem_rejects(ticket) ==
    ticket = NoneRet \/ ticket[1].status # "valid"

redeem_ticket(ticket_id) ==
    LET ticket == tickets_get(ticket_id) IN
    IF redeem_rejects(ticket)
    THEN /\ res' = [op |-> "redeem", ticket_id |-> ticket_id, ret |-> FALSE]
         /\ UNCHANGED <<chain, pending_transactions, tickets, lists, ntx, now, mines>>
    ELSE /\ ntx < MaxTx
         /\ \E t \in now..MaxTime :
              LET tx == TicketTransaction("redeem", ticket_id, ticket[1].owner,
                                          NoneStr, NoneStr, t, ntx + 1)
              IN  /\ now' = t
                  /\ lists' = add_transaction(tx)
         /\ ntx' = ntx + 1
         /\ tickets' = [tickets EXCEPT ![ticket_id].status = "redeemed"]
         /\ res' = [op |-> "redeem", ticket_id |-> ticket_id, ret |-> TRUE]
         /\ UNCHANGED <<chain, pending_transactions, mines>>

verify_returns_valid_only(ticket_id, ticket) ==
    IF ticket = NoneRet \/ ticket[1].status # "valid" THEN NoneRet ELSE <<ticket_id>>

\* if not ticket: return None / return ticket. The value returned is the
\* registry's dict itself: <<ticket_id>> is the reference to the entry stored
\* under ticket_id
verify_returns(ticket_id, ticket) ==
    IF ticket = NoneRet THEN NoneRet ELSE <<ticket_id>>

\* What a caller reads in the value verify_ticket returned
Deref(ret) == IF ret = NoneRet THEN NoneRet ELSE tickets_get(ret[1])

\* verify_ticket. out is the value returned and what the caller reads in it on
\* return; again records that the call before this one was verify_ticket of
\* the same id, and prev what that call returned.
verify_ticket(ticket_id) ==
    LET ret == verify_returns(ticket_id, tickets_get(ticket_id))
        out == [ret |-> ret, seen |-> Deref(ret)]
        again == res.op = "verify" /\ res.ticket_id = ticket_id
    IN  /\ res' = [op |-> "verify", ticket_id |-> ticket_id, out |-> out,
                   again |-> again,
                   prev |-> IF again THEN res.out ELSE out]
        /\ UNCHANGED <<chain, pending_transactions, tickets, lists, ntx, now, mines>>

nothing_pending_never ==
    FALSE

\* if not self.pending_transactions
nothing_pending ==
    lists[pending_transactions] = <<>>

previous_hash_of_genesis(last, heap) ==
    compute_hash(chain[1], heap)

\* self.chain[-1].compute_hash(), the new block's previous_hash
previous_hash_of(last, heap) ==
    compute_hash(last, heap)

reset_pending_keep ==
    UNCHANGED <<lists, pending_transactions>>

reset_pending_clear ==
    /\ lists' = [lists EXCEPT ![pending_transactions] = <<>>]
    /\ UNCHANGED pending_transactions

\* self.pending_transactions = []: the attribute is bound to a new empty list,
\* the list the block holds is left as it is
reset_pending ==
    /\ lists' = Append(lists, <<>>)
    /\ pending_transactions' = Len(lists) + 1

\* mine, run to completion; the block returned is the one at chain index ret[1]
mine ==
    IF nothing_pending
    THEN /\ res' = [op |-> "mine", ret |-> NoneRet]
         /\ UNCHANGED <<chain, pending_transactions, tickets, lists, ntx, now, mines>>
    ELSE \E t \in now..MaxTime :
           LET last == chain[Len(chain)]
               new_block == Block(Len(chain), pending_transactions,
                                  previous_hash_of(last, lists), t)
               found == proof_of_work(new_block, lists)
           IN  /\ now' = t
               /\ chain' = Append(chain, [found.block EXCEPT !.hash = found.computed_hash])
               /\ reset_pending
               /\ mines' = mines + 1
               /\ res' = [op |-> "mine", ret |-> <<Len(chain)>>]
               /\ UNCHANGED <<tickets, ntx>>

Next ==
    \/ \E owner \in Owners, event \in Events :
          issue_ticket(owner, event) /\ UNCHANGED aux
    \/ \E ticket_id \in IdInputs, new_owner \in Owners :
          transfer_ticket(ticket_id, new_owner) /\ UNCHANGED aux
    \/ \E ticket_id \in IdInputs :
          redeem_ticket(ticket_id) /\ UNCHANGED aux
    \/ \E ticket_id \in IdInputs :
          verify_ticket(ticket_id) /\ UNCHANGED aux
    \/ mine /\ UNCHANGED aux

Spec == Init /\ [][Next]_vars

----------------------------------------------------------------------------
(* mine() statement by statement, for a ledger whose other calls arrive     *)
(* while it runs. The ledger takes no lock; a facade call runs whole        *)
(* between two statements of mine. The calls that arrive are those that     *)
(* submit a transaction: issue_ticket, and transfer_ticket and              *)
(* redeem_ticket of a valid ticket.                                         *)

\* lines 276-278: the guard, then the Block built over the pending list itself
mine_start ==
    /\ miner.pc = "idle"
    /\ IF nothing_pending
       THEN /\ res' = [op |-> "mine", ret |-> NoneRet]
            /\ UNCHANGED <<miner, now>>
       ELSE \E t \in now..MaxTime :
              /\ now' = t
              /\ miner' = [pc |-> "pow_init",
                           block |-> Block(Len(chain), pending_transactions,
                                           previous_hash_of(chain[Len(chain)], lists), t),
                           computed_hash |-> NoneRet]
              /\ UNCHANGED res
    /\ UNCHANGED <<chain, pending_transactions, tickets, lists, ntx, mines, held, tampered>>

\* lines 285-286: block.nonce = 0; computed_hash = block.compute_hash()
mine_pow_init ==
    /\ miner.pc = "pow_init"
    /\ LET b0 == [miner.block EXCEPT !.nonce = 0]
       IN  miner' = [pc |-> "pow", block |-> b0, computed_hash |-> compute_hash(b0, lists)]
    /\ UNCHANGED <<chain, pending_transactions, tickets, lists, ntx, now, mines, res,
                   held, tampered>>

\* lines 287-290 and the assignment of line 279: one test of the loop, then
\* either its body or the return into new_block.hash
mine_pow_step ==
    /\ miner.pc = "pow"
    /\ IF startswith_zeros(miner.computed_hash)
       THEN miner' = [miner EXCEPT !.pc = "append",
                                   !.block.hash = miner.computed_hash]
       ELSE LET b1 == next_nonce(miner.block)
            IN  miner' = [miner EXCEPT !.block = b1,
                                       !.computed_hash = compute_hash(b1, lists)]
    /\ UNCHANGED <<chain, pending_transactions, tickets, lists, ntx, now, mines, res,
                   held, tampered>>

\* line 280: self.chain.append(new_block)
mine_append ==
    /\ miner.pc = "append"
    /\ chain' = Append(chain, miner.block)
    /\ miner' = [miner EXCEPT !.pc = "reset"]
    /\ UNCHANGED <<pending_transactions, tickets, lists, ntx, now, mines, res,
                   held, tampered>>

\* lines 281-282: self.pending_transactions = []; return new_block
mine_reset ==
    /\ miner.pc = "reset"
    /\ reset_pending
    /\ mines' = mines + 1
    /\ res' = [op |-> "mine", ret |-> <<miner.block.index>>]
    /\ miner' = [pc |-> "idle"]
    /\ UNCHANGED <<chain, tickets, ntx, now, held, tampered>>

MineSteps == mine_pow_init \/ mine_pow_step \/ mine_append \/ mine_reset

NextConc ==
    \/ \E owner \in Owners, event \in Events :
          issue_ticket(owner, event) /\ UNCHANGED aux
    \/ \E ticket_id \in DOMAIN tickets, new_owner \in Owners :
          /\ tickets[ticket_id].status = "valid"
          /\ transfer_ticket(ticket_id, new_owner) /\ UNCHANGED aux
    \/ \E ticket_id \in DOMAIN tickets :
          /\ tickets[ticket_id].status = "valid"
          /\ redeem_ticket(ticket_id) /\ UNCHANGED aux
    \/ mine_start
    \/ mine_pow_init
    \/ mine_pow_step
    \/ mine_append
    \/ mine_reset

SpecConc == Init /\ [][NextConc]_vars

\* The search of mine() with tickets being issued around and during it
NextPow ==
    \/ \E owner \in Owners, event \in Events :
          issue_ticket(owner, event) /\ UNCHANGED aux
    \/ mine_start
    \/ mine_pow_init
    \/ mine_pow_step
    \/ mine_append
    \/ mine_reset

\* mine() once called runs on: the interpreter keeps scheduling its thread
SpecPowFair == Init /\ [][NextPow]_vars /\ WF_vars(MineSteps)

\* The transactions a block holds, read through its list reference
BlockTxs(i) == lists[chain[i].transactions]

----------------------------------------------------------------------------
(* The chain integrity check the design calls for, over a chain that is     *)
(* altered from outside the ledger                                          *)

\* What verify_chain requires of the block at chain position i (after genesis)
block_ok(i) ==
    /\ chain[i].previous_hash = chain[i - 1].hash
    /\ chain[i].hash = compute_hash(chain[i], lists)
    /\ startswith_zeros(chain[i].hash)

\* verify_chain: <<index>> of the first block that fails, <<>> when none does
verify_chain_result ==
    LET bad == {i \in 2..Len(chain) : ~block_ok(i)}
    IN  IF bad = {} THEN NoneRet
        ELSE <<chain[CHOOSE i \in bad : \A j \in bad : i <= j].index>>

verify_chain ==
    /\ res' = [op |-> "verify_chain", ret |-> verify_chain_result]
    /\ UNCHANGED <<chain, pending_transactions, tickets, lists, ntx, now, mines, aux>>

\* The owner recorded in transaction j of the sealed block at position i is
\* rewritten in place; nothing is resealed.  tampered lists the indices of
\* the altered blocks in increasing order; at most two blocks are altered, each
\* of them once
Tamper(i, j, owner) ==
    /\ Len(tampered) < 2
    /\ \A k \in 1..Len(tampered) : tampered[k] # chain[i].index
    /\ BlockTxs(i)[j].owner # owner
    /\ lists' = [lists EXCEPT ![chain[i].transactions][j].owner = owner]
    /\ tampered' = IF tampered = NoneRet THEN <<chain[i].index>>
                   ELSE IF tampered[1] < chain[i].index
                        THEN Append(tampered, chain[i].index)
                        ELSE <<chain[i].index>> \o tampered
    /\ res' = [op |-> "tamper"]
    /\ UNCHANGED <<chain, pending_transactions, tickets, ntx, now, mines, miner, held>>

NextTamper ==
    \/ \E owner \in Owners, event \in Events :
          issue_ticket(owner, event) /\ UNCHANGED aux
    \/ \E ticket_id \in DOMAIN tickets, new_owner \in Owners :
          /\ tickets[ticket_id].status = "valid"
          /\ transfer_ticket(ticket_id, new_owner) /\ UNCHANGED aux
    \/ mine /\ UNCHANGED aux
    \/ \E i \in 2..Len(chain) : \E j \in 1..Len(BlockTxs(i)), owner \in Owners :
          Tamper(i, j, owner)
    \/ verify_chain

SpecTamper == Init /\ [][NextTamper]_vars

----------------------------------------------------------------------------
(* A caller that keeps the value verify_ticket returned                     *)

\* rec = ledger.verify_ticket(ticket_id): held is the value returned and what
\* the caller read in it on return
verify_and_hold(ticket_id) ==
    /\ verify_ticket(ticket_id)
    /\ held' = res'.out
    /\ UNCHANGED <<miner, tampered>>

\* rec["owner"] = owner, on the record the caller holds. The record is the dict
\* verify_ticket returned (line 321), which is the one stored in self.tickets
held_set_owner(owner) ==
    /\ held # NoneRet
    /\ held.ret # NoneRet
    /\ held.seen[1].owner # owner
    /\ tickets' = [tickets EXCEPT ![held.ret[1]].owner = owner]
    /\ held' = [held EXCEPT !.seen = <<[held.seen[1] EXCEPT !.owner = owner]>>]
    /\ res' = [op |-> "held_set_owner"]
    /\ UNCHANGED <<chain, pending_transactions, lists, ntx, now, mines, miner, tampered>>

NextHold ==
    \/ \E owner \in Owners, event \in Events :
          issue_ticket(owner, event) /\ UNCHANGED aux
    \/ \E ticket_id \in DOMAIN tickets, new_owner \in Owners :
          /\ tickets[ticket_id].status = "valid"
          /\ transfer_ticket(ticket_id, new_owner) /\ UNCHANGED aux
    \/ \E ticket_id \in DOMAIN tickets :
          /\ tickets[ticket_id].status = "valid"
          /\ redeem_ticket(ticket_id) /\ UNCHANGED aux
    \/ \E ticket_id \in IdInputs : verify_and_hold(ticket_id)
    \/ \E owner \in Owners : held_set_owner(owner)

SpecHold == Init /\ [][NextHold]_vars

----------------------------------------------------------------------------
(* Properties *)

pending == lists[pending_transactions]

Valid(id) == id \in DOMAIN tickets /\ tickets[id].status = "valid"

\* The registry, the pending buffer and the chain with every block's contents
Ledger == <<tickets, pending_transactions, lists, chain>>

\* C1: once redeem_ticket(id) has returned true the entry of id has status
\* redeemed; from then on every step leaves that entry (status and owner) as
\* it is, and every transfer_ticket(id, _) and redeem_ticket(id) returns false.
C1_RedeemTerminal ==
    [][\A id \in IdInputs :
         /\ (redeem_ticket(id) /\ res'.ret = TRUE)
               => (id \in DOMAIN tickets' /\ tickets'[id].status = "redeemed")
         /\ (id \in DOMAIN tickets /\ tickets[id].status = "redeemed")
               => /\ id \in DOMAIN tickets'
                  /\ tickets'[id] = tickets[id]
                  /\ \A new_owner \in Owners :
                        transfer_ticket(id, new_owner) => res'.ret = FALSE
                  /\ redeem_ticket(id) => res'.ret = FALSE]_vars

C1_Witness ==
    /\ res.op \in {"transfer", "redeem"}
    /\ res.ret = FALSE
    /\ res.ticket_id \in DOMAIN tickets
    /\ tickets[res.ticket_id].status = "redeemed"

\* C2: transfer_ticket or redeem_ticket on an id that is absent from the
\* registry or whose status is not valid returns false and leaves the
\* registry, the pending buffer and the chain as they were.
C2_FailureChangesNothing ==
    [][\A id \in IdInputs :
         ~Valid(id) =>
            /\ \A new_owner \in Owners :
                  transfer_ticket(id, new_owner)
                     => (res'.ret = FALSE /\ UNCHANGED Ledger)
            /\ redeem_ticket(id) => (res'.ret = FALSE /\ UNCHANGED Ledger)]_vars

C2_Witness ==
    /\ res.op \in {"transfer", "redeem"}
    /\ res.ret = FALSE
    /\ res.ticket_id \notin DOMAIN tickets
    /\ DOMAIN tickets # {}
    /\ pending # <<>>
    /\ Len(chain) > 1

\* How many times the transaction object oid occurs in the sequence txs
RECURSIVE Count(_, _)
Count(oid, txs) ==
    IF txs = <<>> THEN 0
    ELSE (IF Head(txs).oid = oid THEN 1 ELSE 0) + Count(oid, Tail(txs))

RECURSIVE CountInBlocks(_, _)
CountInBlocks(oid, i) ==
    IF i = 0 THEN 0
    ELSE (IF Count(oid, BlockTxs(i)) > 0 THEN 1 ELSE 0) + CountInBlocks(oid, i - 1)

\* C3: every transaction constructed so far is in the pending buffer or in
\* the transactions of exactly one block, once, and never in both.
C3_PendingOrOneBlock ==
    \A oid \in 1..ntx :
       LET blocks == CountInBlocks(oid, Len(chain))
           inPending == Count(oid, pending)
       IN  /\ blocks + inPending = 1
           /\ \A i \in 1..Len(chain) : Count(oid, BlockTxs(i)) <= 1

C3_Witness ==
    /\ Len(chain) >= 3
    /\ pending # <<>>
    /\ ntx = MaxTx

\* C4: every block after the genesis block carries as previous_hash the
\* stored hash of the block before it.
C4_HashLinked ==
    \A i \in 2..Len(chain) : chain[i].previous_hash = chain[i - 1].hash

C4_Witness ==
    Len(chain) >= 3

\* C5: every block's stored hash is compute_hash() of its stored fields, and
\* every block but the genesis block has a hash that starts with
\* `difficulty` zeros.
C5_HashSealed ==
    \A i \in 1..Len(chain) :
       /\ chain[i].hash = compute_hash(chain[i], lists)
       /\ i > 1 => startswith_zeros(chain[i].hash)

C5_Witness ==
    /\ ~startswith_zeros(chain[1].hash)
    /\ \E i \in 2..Len(chain) : chain[i].nonce > 0

\* C6: mine() with an empty pending buffer returns None and leaves the chain
\* and its blocks, the pending buffer and the registry as they were.
C6_MineEmptyNoOp ==
    [][(pending = <<>> /\ mine) => (res'.ret = NoneRet /\ UNCHANGED Ledger)]_vars

C6_Witness ==
    /\ res.op = "mine"
    /\ res.ret = NoneRet
    /\ Len(chain) > 1
    /\ DOMAIN tickets # {}

\* C7: mine() with a non-empty pending buffer appends one block, with index
\* the chain length before the call and the pending transactions in their
\* order; the earlier blocks and the registry are unchanged, the pending buffer
\* is empty afterwards and the block returned is the new last block. The chain
\* length is always 1 plus the number of such calls.
C7_MineSealsPending ==
    /\ [](Len(chain) = 1 + mines)
    /\ [][(pending # <<>> /\ mine) =>
            /\ Len(chain') = Len(chain) + 1
            /\ \A i \in 1..Len(chain) :
                  chain'[i] = chain[i] /\ lists'[chain'[i].transactions] = BlockTxs(i)
            /\ chain'[Len(chain')].index = Len(chain)
            /\ lists'[chain'[Len(chain')].transactions] = pending
            /\ lists'[pending_transactions'] = <<>>
            /\ tickets' = tickets
            /\ res'.ret = <<chain'[Len(chain')].index>>]_vars

C7_Witness ==
    /\ res.op = "mine"
    /\ res.ret # NoneRet
    /\ Len(chain) >= 3
    /\ Len(BlockTxs(Len(chain))) >= 2

\* C8: transfer_ticket(id, new_owner) on a valid ticket returns true, appends
\* to pending one transfer transaction whose owner is the registry owner before
\* the call and whose new_owner is the argument, sets the registry owner of id
\* to new_owner, and leaves the ticket's status and event, the other entries
\* and the chain unchanged.
C8_TransferEffect ==
    [][\A id \in IdInputs, new_owner \in Owners :
         (Valid(id) /\ transfer_ticket(id, new_owner)) =>
            LET after == lists'[pending_transactions]
                tx == after[Len(after)]
            IN  /\ res'.ret = TRUE
                /\ after = Append(pending, tx)
                /\ tx.tx_type = "transfer" /\ tx.ticket_id = id
                /\ tx.owner = tickets[id].owner /\ tx.new_owner = new_owner
                /\ \A l \in DOMAIN lists : l # pending_transactions => lists'[l] = lists[l]
                /\ DOMAIN lists' = DOMAIN lists
                /\ DOMAIN tickets' = DOMAIN tickets
                /\ tickets'[id] = [owner |-> new_owner, status |-> tickets[id].status,
                                   event |-> tickets[id].event]
                /\ \A k \in DOMAIN tickets : k # id => tickets'[k] = tickets[k]
                /\ UNCHANGED <<chain, pending_transactions>>]_vars

C8_Witness ==
    /\ res.op = "transfer"
    /\ res.ret = TRUE
    /\ Cardinality(DOMAIN tickets) >= 2
    /\ pending # <<>>
    /\ pending[Len(pending)].owner # pending[Len(pending)].new_owner

\* C9: issue_ticket(owner, event) returns an id that was not in the registry,
\* stores {owner, valid, event} under it, appends one issue transaction for
\* that id to pending, and leaves the entries that were there and the chain
\* unchanged: the registry grows by one entry. The call has no failing
\* outcome: it can be made in every state (short of the model's bounds).
C9_IssueEffect ==
  /\ [](ntx < MaxTx /\ TicketIds \ DOMAIN tickets # {}
         => \A owner \in Owners, event \in Events : ENABLED issue_ticket(owner, event))
  /\ [][\A owner \in Owners, event \in Events :
         issue_ticket(owner, event) =>
            LET id == res'.ret
                after == lists'[pending_transactions]
                tx == after[Len(after)]
            IN  /\ id \notin DOMAIN tickets
                /\ DOMAIN tickets' = DOMAIN tickets \cup {id}
                /\ Cardinality(DOMAIN tickets') = Cardinality(DOMAIN tickets) + 1
                /\ tickets'[id] = [owner |-> owner, status |-> "valid", event |-> event]
                /\ \A k \in DOMAIN tickets : tickets'[k] = tickets[k]
                /\ after = Append(pending, tx)
                /\ tx.tx_type = "issue" /\ tx.ticket_id = id
                /\ tx.owner = owner /\ tx.event = event
                /\ \A l \in DOMAIN lists : l # pending_transactions => lists'[l] = lists[l]
                /\ DOMAIN lists' = DOMAIN lists
                /\ UNCHANGED <<chain, pending_transactions>>]_vars

C9_Witness ==
    /\ res.op = "issue"
    /\ Cardinality(DOMAIN tickets) >= 2
    /\ \E k \in DOMAIN tickets : k # res.ret /\ tickets[k].status = "redeemed"

\* C10: verify_ticket(id) leaves the registry, the pending buffer and the
\* chain unchanged, returns None exactly when id is not in the registry, and
\* called again right after itself returns the same record with the same
\* contents.
C10_VerifyPureRead ==
    [][\A id \in IdInputs :
         verify_ticket(id) =>
            /\ UNCHANGED Ledger
            /\ (res'.out.ret = NoneRet) <=> (id \notin DOMAIN tickets)
            /\ id \in DOMAIN tickets => res'.out.seen = <<tickets[id]>>
            /\ res'.again => res'.out = res'.prev]_vars

C10_Witness ==
    /\ res.op = "verify"
    /\ res.again
    /\ res.out.ret # NoneRet
    /\ tickets[res.ticket_id].status = "redeemed"

\* C11: every step leaves the chain it found as a prefix of the chain it
\* leaves, and leaves every field and every stored transaction of the blocks
\* already appended as they were.
C11_AppendOnly ==
    [][/\ Len(chain') >= Len(chain)
       /\ \A i \in 1..Len(chain) :
             /\ chain'[i] = chain[i]
             /\ lists'[chain'[i].transactions] = BlockTxs(i)]_vars

\* a ticket whose issue is sealed in a block has since been transferred or redeemed
C11_Witness ==
    /\ res.op \in {"transfer", "redeem"}
    /\ res.ret = TRUE
    /\ \E i \in 2..Len(chain) : \E j \in 1..Len(BlockTxs(i)) :
          /\ BlockTxs(i)[j].tx_type = "issue"
          /\ BlockTxs(i)[j].ticket_id = res.ticket_id
          /\ \/ tickets[res.ticket_id].owner # BlockTxs(i)[j].owner
             \/ tickets[res.ticket_id].status = "redeemed"

\* C12: with the other calls arriving between the statements of a mine() in
\* progress, no transaction is lost and none is in two blocks, and once the
\* mine() has returned every transaction is in the pending buffer or in
\* exactly one block, not in both.
C12_NoLossNoDuplicate ==
    \A oid \in 1..ntx :
       LET blocks == CountInBlocks(oid, Len(chain))
           inPending == Count(oid, pending)
       IN  /\ blocks + inPending >= 1
           /\ blocks <= 1
           /\ inPending <= 1
           /\ \A i \in 1..Len(chain) : Count(oid, BlockTxs(i)) <= 1
           /\ miner.pc = "idle" => blocks + inPending = 1

\* a mine() has returned whose block holds a transaction that arrived after
\* the block was built
C12_Witness ==
    /\ miner.pc = "idle"
    /\ pending # <<>>
    /\ \E i \in 2..Len(chain) :
          /\ Len(BlockTxs(i)) >= 2
          /\ chain[i].hash # compute_hash(chain[i], lists)

\* C13: a mine() call that found the pending buffer non-empty goes on to
\* append its block, sealed at the chain length it started from, and to
\* return it; no statement of it can fail.
C13_MineTerminates ==
    \A n \in 1..(MaxTx + 1) :
       (miner.pc = "pow_init" /\ Len(chain) = n)
          ~> (miner.pc = "idle" /\ Len(chain) = n + 1
                /\ res = [op |-> "mine", ret |-> <<n>>])

\* a search that took several rounds has come to its end
C13_Witness ==
    /\ miner.pc = "append"
    /\ miner.block.nonce >= 3
    /\ startswith_zeros(miner.block.hash)

\* C14: verify_chain reports no invalid index on a chain nobody altered, and
\* once the transaction data of a sealed block has been altered without
\* resealing it reports that block's index as the first invalid one.
C14_VerifyChainFindsTamper ==
    res.op = "verify_chain" =>
       res.ret = (IF tampered = NoneRet THEN NoneRet ELSE <<tampered[1]>>)

\* two blocks are altered, the first of them after an intact block
C14_Witness ==
    /\ res.op = "verify_chain"
    /\ Len(tampered) = 2
    /\ res.ret = <<tampered[1]>>
    /\ tampered[1] >= 1
    /\ tampered[1] < Len(chain) - 1
    /\ \E i \in (tampered[1] + 2)..Len(chain) : ~block_ok(i)

\* verify_chain has passed a chain of several blocks
C14_WitnessIntact ==
    /\ res.op = "verify_chain"
    /\ tampered = NoneRet
    /\ res.ret = NoneRet
    /\ Len(chain) >= 3

\* The transactions of the blocks at chain positions 1..i, in chain order
RECURSIVE SealedLog(_)
SealedLog(i) ==
    IF i = 0 THEN <<>> ELSE SealedLog(i - 1) \o BlockTxs(i)

\* The transaction log: the sealed blocks in chain order, then the pending ones
Log == SealedLog(Len(chain)) \o pending

\* The effect of one logged transaction on a registry
Apply(reg, tx) ==
    CASE tx.tx_type = "issue" ->
            [k \in DOMAIN reg \cup {tx.ticket_id} |->
                IF k = tx.ticket_id
                THEN [owner |-> tx.owner, status |-> "valid", event |-> tx.event]
                ELSE reg[k]]
      [] tx.tx_type = "transfer" /\ tx.ticket_id \in DOMAIN reg ->
            [reg EXCEPT ![tx.ticket_id].owner = tx.new_owner]
      [] tx.tx_type = "redeem" /\ tx.ticket_id \in DOMAIN reg ->
            [reg EXCEPT ![tx.ticket_id].status = "redeemed"]
      [] OTHER -> reg

RECURSIVE Replay(_, _)
Replay(reg, txs) ==
    IF txs = <<>> THEN reg ELSE Replay(Apply(reg, Head(txs)), Tail(txs))

\* C15: replaying the transaction log (sealed blocks in chain order, then the
\* pending transactions) from the empty registry yields the ticket registry:
\* the same ticket ids with the same owner, status and event.
C15_RegistryIsReplay ==
    LET replayed == Replay(<<>>, Log)
    IN  /\ DOMAIN replayed = DOMAIN tickets
        /\ \A id \in DOMAIN tickets : replayed[id] = tickets[id]

\* the log spans a sealed block and the pending buffer, holds all three kinds
\* of transaction, and a ticket has changed hands since it was issued
C15_Witness ==
    /\ Len(chain) >= 2
    /\ pending # <<>>
    /\ \A k \in {"issue", "transfer", "redeem"} :
          \E n \in 1..Len(Log) : Log[n].tx_type = k
    /\ \E id \in DOMAIN tickets, n \in 1..Len(Log) :
          /\ Log[n].tx_type = "issue" /\ Log[n].ticket_id = id
          /\ Log[n].owner # tickets[id].owner

\* The hash of block b with its nonce set to n
HashAtNonce(b, n, heap) == compute_hash([b EXCEPT !.nonce = n], heap)

\* C16: the block a mine() call appends carries the least nonce n >= 0 whose
\* hash meets the difficulty, its hash is the hash at that nonce, and apart
\* from the nonce it has the fields it was constructed with: index
\* len(chain), the pending list, the construction time, the last block's hash.
C16_LeastNonce ==
    [][Len(chain') = Len(chain) + 1 =>
         LET b == chain'[Len(chain')]
         IN  /\ b.nonce >= 0
             /\ startswith_zeros(HashAtNonce(b, b.nonce, lists'))
             /\ \A n \in 0..(b.nonce - 1) :
                   ~startswith_zeros(HashAtNonce(b, n, lists'))
             /\ b.hash = HashAtNonce(b, b.nonce, lists')
             /\ b.index = Len(chain)
             /\ b.transactions = pending_transactions
             /\ lists'[b.transactions] = lists[pending_transactions]
             /\ b.timestamp = now'
             /\ b.previous_hash = compute_hash(chain[Len(chain)], lists)]_vars

\* mine() has just sealed a block whose search went past several nonces, on a
\* chain holding an earlier block sealed at nonce 0
C16_Witness ==
    /\ res.op = "mine"
    /\ res.ret # NoneRet
    /\ chain[Len(chain)].nonce >= 2
    /\ \E i \in 2..Len(chain) : chain[i].nonce = 0

\* The record the caller holds shows what it showed when verify_ticket
\* returned it (or what the caller has written into it since)
HeldRecordKept ==
    (held # NoneRet /\ held.ret # NoneRet) => Deref(held.ret) = held.seen

\* C17: the record verify_ticket returned is a snapshot: whatever the ledger
\* does afterwards, a successful transfer or redeem of that ticket included,
\* the record shows the owner and status it showed on return, and a write to
\* the record leaves the registry as it is.
C17_RecordIsSnapshot ==
    /\ []HeldRecordKept
    /\ [][(\E owner \in Owners : held_set_owner(owner)) => tickets' = tickets]_vars

\* C17, first half alone: a successful transfer_ticket or redeem_ticket leaves
\* the owner and status in a record returned earlier as they were.
C17_LaterCallsLeaveRecord ==
    [][(/\ held # NoneRet
        /\ held.ret # NoneRet
        /\ res'.op \in {"transfer", "redeem"}
        /\ res'.ret = TRUE
        /\ res'.ticket_id = held.ret[1])
          => Deref(held.ret)' = held.seen]_vars

\* C17, second half alone: writing to the returned record leaves the registry
\* as it is.
C17_RecordWriteLeavesRegistry ==
    [][(\E owner \in Owners : held_set_owner(owner)) => tickets' = tickets]_vars

\* C18: with transactions submitted between the steps of a mine() call in
\* progress, every block appended to the chain has a stored hash equal to
\* compute_hash() over the fields and transactions stored in it: no
\* transaction is in a block's list without being covered by the block's hash.
C18_BlocksSealedUnderInterleaving ==
    \A i \in 1..Len(chain) :
       /\ chain[i].hash # NoneRet
       /\ chain[i].hash[3].transactions
             = [k \in 1..Len(BlockTxs(i)) |-> to_dict(BlockTxs(i)[k])]
       /\ chain[i].hash = compute_hash(chain[i], lists)

\* The log restricted to one ticket id
LogOf(id) == SelectSeq(Log, LAMBDA tx : tx.ticket_id = id)

\* C19: the log (sealed blocks in chain order, then pending) restricted to one
\* ticket id has the shape issue, transfer*, redeem?: its first entry is the
\* only issue, a redeem is its last entry, and each transfer or redeem names
\* as owner the new_owner of the transfer before it, or the issue's owner
\* when the issue is before it.
C19_TicketLogShape ==
    \A id \in TicketIds :
       LET l == LogOf(id)
       IN  /\ id \in DOMAIN tickets <=> l # <<>>
           /\ \A n \in 1..Len(l) :
                 /\ l[n].tx_type = "issue" <=> n = 1
                 /\ l[n].tx_type \in {"issue", "transfer", "redeem"}
                 /\ l[n].tx_type = "redeem" => n = Len(l)
                 /\ n > 1 => l[n].owner = (IF l[n - 1].tx_type = "transfer"
                                            THEN l[n - 1].new_owner
                                            ELSE l[n - 1].owner)

\* a ticket issued, handed to another owner and redeemed by that owner, with
\* its log spread over a sealed block and the pending buffer
C19_Witness ==
    /\ Len(chain) >= 2
    /\ pending # <<>>
    /\ \E id \in TicketIds :
          LET l == LogOf(id)
          IN  /\ Len(l) = 3
              /\ l[2].tx_type = "transfer"
              /\ l[2].new_owner # l[1].owner
              /\ l[3].tx_type = "redeem"
              /\ l[3].owner = l[2].new_owner

\* C20: the chain is never empty; its first block is the genesis block, with
\* index 0, no transactions and previous_hash "0"; every later block holds at
\* least one transaction.
C20_GenesisAndNoEmptyBlock ==
    /\ Len(chain) >= 1
    /\ chain[1].index = 0
    /\ BlockTxs(1) = <<>>
    /\ chain[1].previous_hash = <<0>>
    /\ \A i \in 2..Len(chain) : chain[i].index >= 1 /\ BlockTxs(i) # <<>>

\* mine() has been called with nothing pending on a chain that already holds
\* sealed blocks
C20_Witness ==
    /\ Len(chain) >= 3
    /\ res = [op |-> "mine", ret |-> NoneRet]
    /\ pending = <<>>

====
